---- MODULE Spec2Model ----
(***************************************************************************)
(* Model of engine/providers/skywalking/log/grpc/servers/ray_server.py:    *)
(* the port reservation (_reserve_port), the supervisor (main) and the     *)
(* Ray actor GRPCIngestorActor.                                            *)
(*                                                                         *)
(* The supervisor is one sequential process whose position is pc.  Each    *)
(* actor is an asyncio Ray actor: GRPCIngestorActor.remote() and           *)
(* method.remote() return at once, the actor is created later, and the     *)
(* calls dispatched to one actor begin in the order of their dispatch;     *)
(* a synchronous method (stop, destroy) runs while the coroutine of start  *)
(* is suspended at one of its awaits.                                      *)
(*                                                                         *)
(* KeyboardInterrupt is modelled where the spec names it: once, while the  *)
(* supervisor is inside the try block of main (dispatching start or        *)
(* waiting in ray.get).                                                    *)
(***************************************************************************)
EXTENDS Integers, Sequences, FiniteSets

\* ---------------------------------------------------------------------------
\* Program constants
\* ---------------------------------------------------------------------------

\* sock.bind(('', 50051))
ProbePort == 50051

\* range(2): the number of actors when SO_REUSEPORT is supported
WorkerCount == 2

\* range(1): the number of actors in the fallback
FallbackCount == 1

\* the most calls the model lets one actor be sent
MaxCalls == 4

\* the identities the actor handles of one run can have
Workers == 1..WorkerCount

\* 'localhost:{}'.format(port), kept as its two parts
BadBindAddress(p) == [host |-> "localhost", port |-> p + 1]

FormatBindAddress(p) == [host |-> "localhost", port |-> p]

NoAddress == [host |-> "", port |-> 0]

\* the branch of main on the flag of the reservation
BadPoolSize(success) == IF ~success THEN WorkerCount ELSE WorkerCount

PoolSize(success) == IF ~success THEN FallbackCount ELSE WorkerCount

VARIABLES
    pc,             \* position of the supervisor in _reserve_port / main
    sock,           \* probe socket: "none", "open", "bound", "closed"
    supported,      \* local `supported` of _reserve_port
    port,           \* the port yielded by _reserve_port (0: not yet)
    bind_address,   \* local `bind_address` of main
    grpc_ingestors, \* the actor handles created so far, in order
    idx,            \* position of the running for-loop over grpc_ingestors
    exc,            \* exception in flight in main
    result,         \* "running", "returned", "raised"
    interrupted,    \* a KeyboardInterrupt was delivered
    calls,          \* per actor: the method calls dispatched to it, in order
    taken,          \* per actor: how many of its calls have begun
    alive,          \* per actor: "none", "pending" (handle only), "alive",
                    \* "dead" (its process is gone)
    run,            \* per actor: self.run ("unset", "None", "False")
    actor_address,  \* per actor: self.bind_address
    server,         \* per actor: self.server: "none","created","bound","serving"
    listen_port,    \* per actor: port its server listens on (0: none)
    redis_conn,     \* per actor: self.redis_conn: "none", "open"
    wpc             \* per actor: position of the coroutine of start()

vars == <<pc, sock, supported, port, bind_address, grpc_ingestors, idx, exc,
          result, interrupted, calls, taken, alive, run, actor_address,
          server, listen_port, redis_conn, wpc>>

supervisorVars == <<pc, sock, supported, port, bind_address, grpc_ingestors,
                    idx, exc, result, interrupted>>

actorVars == <<alive, run, actor_address, server, listen_port, redis_conn,
               wpc>>

Init ==
    /\ pc = "socket"
    /\ sock = "none"
    /\ supported = TRUE
    /\ port = 0
    /\ bind_address = NoAddress
    /\ grpc_ingestors = <<>>
    /\ idx = 0
    /\ exc = "none"
    /\ result = "running"
    /\ interrupted = FALSE
    /\ calls = [w \in Workers |-> <<>>]
    /\ taken = [w \in Workers |-> 0]
    /\ alive = [w \in Workers |-> "none"]
    /\ run = [w \in Workers |-> "unset"]
    /\ actor_address = [w \in Workers |-> NoAddress]
    /\ server = [w \in Workers |-> "none"]
    /\ listen_port = [w \in Workers |-> 0]
    /\ redis_conn = [w \in Workers |-> "none"]
    /\ wpc = [w \in Workers |-> "idle"]

\* ---------------------------------------------------------------------------
\* _reserve_port
\* ---------------------------------------------------------------------------

\* sock = socket.socket(...); supported = True
ReserveSocket ==
    /\ pc = "socket"
    /\ sock' = "open"
    /\ supported' = TRUE
    /\ pc' = "setsockopt"
    /\ UNCHANGED <<port, bind_address, grpc_ingestors, idx, exc, result,
                   interrupted, calls, taken>>
    /\ UNCHANGED actorVars

\* sock.setsockopt(SOL_SOCKET, SO_REUSEPORT, 1) succeeds
ReserveSetOptionOk ==
    /\ pc = "setsockopt"
    /\ pc' = "bind"
    /\ UNCHANGED <<sock, supported, port, bind_address, grpc_ingestors, idx,
                   exc, result, interrupted, calls, taken>>
    /\ UNCHANGED actorVars

\* the platform has no SO_REUSEPORT: AttributeError, caught
RaisingReserveSetOptionUnsupported ==
    /\ pc = "setsockopt"
    /\ supported' = FALSE
    /\ exc' = "OSError"
    /\ result' = "raised"
    /\ pc' = "done"
    /\ UNCHANGED <<sock, port, bind_address, grpc_ingestors, idx, interrupted,
                   calls, taken>>
    /\ UNCHANGED actorVars

ReserveSetOptionUnsupported ==
    /\ pc = "setsockopt"
    /\ supported' = FALSE
    /\ pc' = "bind"
    /\ UNCHANGED <<sock, port, bind_address, grpc_ingestors, idx, exc, result,
                   interrupted, calls, taken>>
    /\ UNCHANGED actorVars

\* setsockopt raises OSError: not an AttributeError, and the statement is
\* outside the try/finally that closes the socket
ReserveSetOptionError ==
    /\ pc = "setsockopt"
    /\ exc' = "OSError"
    /\ result' = "raised"
    /\ pc' = "done"
    /\ UNCHANGED <<sock, supported, port, bind_address, grpc_ingestors, idx,
                   interrupted, calls, taken>>
    /\ UNCHANGED actorVars

\* sock.bind(('', 50051)) succeeds
ReserveBindOk ==
    /\ pc = "bind"
    /\ sock' = "bound"
    /\ pc' = "yield"
    /\ UNCHANGED <<supported, port, bind_address, grpc_ingestors, idx, exc,
                   result, interrupted, calls, taken>>
    /\ UNCHANGED actorVars

\* sock.bind raises OSError (the port is taken); also outside the try/finally
SwallowingReserveBindError ==
    /\ pc = "bind"
    /\ pc' = "yield"
    /\ UNCHANGED <<sock, supported, port, bind_address, grpc_ingestors, idx,
                   exc, result, interrupted, calls, taken>>
    /\ UNCHANGED actorVars

ReserveBindError ==
    /\ pc = "bind"
    /\ exc' = "OSError"
    /\ result' = "raised"
    /\ pc' = "done"
    /\ UNCHANGED <<sock, supported, port, bind_address, grpc_ingestors, idx,
                   interrupted, calls, taken>>
    /\ UNCHANGED actorVars

\* yield sock.getsockname()[1], supported; main computes bind_address
ReserveYield ==
    /\ pc = "yield"
    /\ port' = ProbePort
    /\ bind_address' = FormatBindAddress(port')
    /\ pc' = "construct"
    /\ UNCHANGED <<sock, supported, grpc_ingestors, idx, exc, result,
                   interrupted, calls, taken>>
    /\ UNCHANGED actorVars

\* finally: sock.close(), then the with statement ends and main returns or
\* re-raises the exception in flight
ConditionalReserveClose ==
    /\ pc = "close"
    /\ sock' = IF exc = "none" THEN "closed" ELSE sock
    /\ result' = IF exc = "none" THEN "returned" ELSE "raised"
    /\ pc' = "done"
    /\ UNCHANGED <<supported, port, bind_address, grpc_ingestors, idx, exc,
                   interrupted, calls, taken>>
    /\ UNCHANGED actorVars

ReserveClose ==
    /\ pc = "close"
    /\ sock' = "closed"
    /\ result' = IF exc = "none" THEN "returned" ELSE "raised"
    /\ pc' = "done"
    /\ UNCHANGED <<supported, port, bind_address, grpc_ingestors, idx, exc,
                   interrupted, calls, taken>>
    /\ UNCHANGED actorVars

\* ---------------------------------------------------------------------------
\* main
\* ---------------------------------------------------------------------------

Last(i) == i + 1 = Len(grpc_ingestors)

Dispatch(w, method) == [calls EXCEPT ![w] = Append(@, method)]

\* one element of the list comprehension: GRPCIngestorActor.remote(...)
\* returns a handle at once; the actor itself is created later
ConstructWorker ==
    /\ pc = "construct"
    /\ Len(grpc_ingestors) < PoolSize(supported)
    /\ LET w == Len(grpc_ingestors) + 1 IN
        /\ grpc_ingestors' = Append(grpc_ingestors, w)
        /\ alive' = [alive EXCEPT ![w] = "pending"]
        /\ pc' = IF w = PoolSize(supported) THEN "dispatch" ELSE "construct"
    /\ idx' = 0
    /\ UNCHANGED <<sock, supported, port, bind_address, exc, result,
                   interrupted, calls, taken>>
    /\ UNCHANGED <<run, actor_address, server, listen_port, redis_conn, wpc>>

\* refs = [grpc_ingestor.start.remote() for grpc_ingestor in grpc_ingestors]
SequentialDispatchStart ==
    /\ pc = "dispatch"
    /\ idx < Len(grpc_ingestors)
    /\ calls' = Dispatch(grpc_ingestors[idx + 1], "start")
    /\ idx' = 0
    /\ pc' = "get"
    /\ UNCHANGED <<sock, supported, port, bind_address, grpc_ingestors, exc,
                   result, interrupted, taken>>
    /\ UNCHANGED actorVars

DispatchStart ==
    /\ pc = "dispatch"
    /\ idx < Len(grpc_ingestors)
    /\ calls' = Dispatch(grpc_ingestors[idx + 1], "start")
    /\ idx' = IF Last(idx) THEN 0 ELSE idx + 1
    /\ pc' = IF Last(idx) THEN "get" ELSE "dispatch"
    /\ UNCHANGED <<sock, supported, port, bind_address, grpc_ingestors, exc,
                   result, interrupted, taken>>
    /\ UNCHANGED actorVars

\* KeyboardInterrupt inside the try block: control goes to the handler
Interrupt ==
    /\ pc \in {"dispatch", "get"}
    /\ ~interrupted
    /\ interrupted' = TRUE
    /\ pc' = "stop"
    /\ idx' = 0
    /\ UNCHANGED <<sock, supported, port, bind_address, grpc_ingestors, exc,
                   result, calls, taken>>
    /\ UNCHANGED actorVars

\* one element of the list comprehension raises (the actor cannot be
\* submitted): grpc_ingestors is not assigned, the try block is not entered,
\* and the error leaves the with statement
ConstructFails ==
    /\ pc = "construct"
    /\ exc' = "ConstructError"
    /\ pc' = "close"
    /\ UNCHANGED <<sock, supported, port, bind_address, grpc_ingestors, idx,
                   result, interrupted, calls, taken>>
    /\ UNCHANGED actorVars

\* the ref of the start() of actor w holds an error: start() raised, or the
\* actor died (a call to a dead actor fails)
StartFailed(w) ==
    \/ wpc[w] = "failed"
    \/ (alive[w] = "dead" /\ \E i \in 1..Len(calls[w]) : calls[w][i] = "start")

\* ray.get(refs) raises the error of a start() that failed; no handler
\* matches, so control goes to the finally clause with the error in flight
StoppingGetRaises ==
    /\ pc = "get"
    /\ \E i \in 1..Len(grpc_ingestors) : StartFailed(grpc_ingestors[i])
    /\ exc' = "RayTaskError"
    /\ pc' = "stop"
    /\ idx' = 0
    /\ UNCHANGED <<sock, supported, port, bind_address, grpc_ingestors,
                   result, interrupted, calls, taken>>
    /\ UNCHANGED actorVars

GetRaises ==
    /\ pc = "get"
    /\ \E i \in 1..Len(grpc_ingestors) : StartFailed(grpc_ingestors[i])
    /\ exc' = "RayTaskError"
    /\ pc' = "destroy"
    /\ idx' = 0
    /\ UNCHANGED <<sock, supported, port, bind_address, grpc_ingestors,
                   result, interrupted, calls, taken>>
    /\ UNCHANGED actorVars

\* except KeyboardInterrupt: for grpc_ingestor in ...: stop.remote()
AbortingIssueStop ==
    /\ pc = "stop"
    /\ idx < Len(grpc_ingestors)
    /\ LET dead == alive[grpc_ingestors[idx + 1]] = "dead" IN
        /\ calls' = IF dead THEN calls
                    ELSE Dispatch(grpc_ingestors[idx + 1], "stop")
        /\ idx' = IF Last(idx) \/ dead THEN 0 ELSE idx + 1
        /\ pc' = IF Last(idx) \/ dead THEN "destroy" ELSE "stop"
    /\ UNCHANGED <<sock, supported, port, bind_address, grpc_ingestors, exc,
                   result, interrupted, taken>>
    /\ UNCHANGED actorVars

BadIssueStop ==
    /\ pc = "stop"
    /\ idx < Len(grpc_ingestors)
    /\ calls' = IF idx = 0 THEN Dispatch(grpc_ingestors[idx + 1], "stop")
                ELSE calls
    /\ idx' = IF Last(idx) THEN 0 ELSE idx + 1
    /\ pc' = IF Last(idx) THEN "destroy" ELSE "stop"
    /\ UNCHANGED <<sock, supported, port, bind_address, grpc_ingestors, exc,
                   result, interrupted, taken>>
    /\ UNCHANGED actorVars

IssueStop ==
    /\ pc = "stop"
    /\ idx < Len(grpc_ingestors)
    /\ calls' = Dispatch(grpc_ingestors[idx + 1], "stop")
    /\ idx' = IF Last(idx) THEN 0 ELSE idx + 1
    /\ pc' = IF Last(idx) THEN "destroy" ELSE "stop"
    /\ UNCHANGED <<sock, supported, port, bind_address, grpc_ingestors, exc,
                   result, interrupted, taken>>
    /\ UNCHANGED actorVars

\* finally: for grpc_ingestor in ...: destroy.remote()
SkipFailedIssueDestroy ==
    /\ pc = "destroy"
    /\ idx < Len(grpc_ingestors)
    /\ calls' = IF StartFailed(grpc_ingestors[idx + 1]) THEN calls
                ELSE Dispatch(grpc_ingestors[idx + 1], "destroy")
    /\ idx' = IF Last(idx) THEN 0 ELSE idx + 1
    /\ pc' = IF Last(idx) THEN "close" ELSE "destroy"
    /\ UNCHANGED <<sock, supported, port, bind_address, grpc_ingestors, exc,
                   result, interrupted, taken>>
    /\ UNCHANGED actorVars

BadIssueDestroy ==
    /\ pc = "destroy"
    /\ idx < Len(grpc_ingestors)
    /\ calls' = IF exc = "none" THEN Dispatch(grpc_ingestors[idx + 1], "destroy")
                ELSE calls
    /\ idx' = IF Last(idx) THEN 0 ELSE idx + 1
    /\ pc' = IF Last(idx) THEN "close" ELSE "destroy"
    /\ UNCHANGED <<sock, supported, port, bind_address, grpc_ingestors, exc,
                   result, interrupted, taken>>
    /\ UNCHANGED actorVars

IssueDestroy ==
    /\ pc = "destroy"
    /\ idx < Len(grpc_ingestors)
    /\ calls' = Dispatch(grpc_ingestors[idx + 1], "destroy")
    /\ idx' = IF Last(idx) THEN 0 ELSE idx + 1
    /\ pc' = IF Last(idx) THEN "close" ELSE "destroy"
    /\ UNCHANGED <<sock, supported, port, bind_address, grpc_ingestors, exc,
                   result, interrupted, taken>>
    /\ UNCHANGED actorVars

\* ---------------------------------------------------------------------------
\* GRPCIngestorActor
\* ---------------------------------------------------------------------------

\* the next call of actor w that has not begun
NextCall(w) ==
    IF alive[w] = "alive" /\ taken[w] < Len(calls[w])
    THEN calls[w][taken[w] + 1] ELSE "none"

\* __init__ runs in the actor's process; bind_address is the argument of
\* .remote(), which main does not change after computing it
ActorInit(w) ==
    /\ alive[w] = "pending"
    /\ alive' = [alive EXCEPT ![w] = "alive"]
    /\ run' = [run EXCEPT ![w] = "None"]
    /\ actor_address' = [actor_address EXCEPT ![w] = bind_address]
    /\ server' = [server EXCEPT ![w] = "created"]
    /\ UNCHANGED <<listen_port, redis_conn, wpc, calls, taken>>
    /\ UNCHANGED supervisorVars

\* start() -> _run_server() runs up to `await aioredis.from_url(...)`
ActorBeginStart(w) ==
    /\ NextCall(w) = "start"
    /\ taken' = [taken EXCEPT ![w] = @ + 1]
    /\ wpc' = [wpc EXCEPT ![w] = "connecting"]
    /\ UNCHANGED <<alive, run, actor_address, server, listen_port, redis_conn,
                   calls>>
    /\ UNCHANGED supervisorVars

\* aioredis.from_url raises: start() ends with that error
ActorConnectFails(w) ==
    /\ wpc[w] = "connecting"
    /\ wpc' = [wpc EXCEPT ![w] = "failed"]
    /\ UNCHANGED <<alive, run, actor_address, server, listen_port, redis_conn,
                   calls, taken>>
    /\ UNCHANGED supervisorVars

\* the connection is made, the servicer added, and add_insecure_port binds
\* self.bind_address; the coroutine is then suspended in server.start()
ActorBound(w) ==
    /\ wpc[w] = "connecting"
    /\ redis_conn' = [redis_conn EXCEPT ![w] = "open"]
    /\ server' = [server EXCEPT ![w] = "bound"]
    /\ listen_port' = [listen_port EXCEPT ![w] = actor_address[w].port]
    /\ wpc' = [wpc EXCEPT ![w] = "starting"]
    /\ UNCHANGED <<alive, run, actor_address, calls, taken>>
    /\ UNCHANGED supervisorVars

\* the connection is made but add_insecure_port cannot bind: start() ends
\* with that error, the connection stays open
ActorBindFails(w) ==
    /\ wpc[w] = "connecting"
    /\ redis_conn' = [redis_conn EXCEPT ![w] = "open"]
    /\ wpc' = [wpc EXCEPT ![w] = "failed"]
    /\ UNCHANGED <<alive, run, actor_address, server, listen_port, calls,
                   taken>>
    /\ UNCHANGED supervisorVars

\* server.start() completes; the coroutine is suspended in
\* server.wait_for_termination(), which no code of the actor ends
ActorServing(w) ==
    /\ wpc[w] = "starting"
    /\ server' = [server EXCEPT ![w] = "serving"]
    /\ wpc' = [wpc EXCEPT ![w] = "waiting"]
    /\ UNCHANGED <<alive, run, actor_address, listen_port, redis_conn, calls,
                   taken>>
    /\ UNCHANGED supervisorVars

\* stop(): self.run = False
ToggleActorStop(w) ==
    /\ NextCall(w) = "stop"
    /\ taken' = [taken EXCEPT ![w] = @ + 1]
    /\ run' = [run EXCEPT ![w] = IF @ = "False" THEN "None" ELSE "False"]
    /\ UNCHANGED <<alive, actor_address, server, listen_port, redis_conn, wpc,
                   calls>>
    /\ UNCHANGED supervisorVars

ActorStop(w) ==
    /\ NextCall(w) = "stop"
    /\ taken' = [taken EXCEPT ![w] = @ + 1]
    /\ run' = [run EXCEPT ![w] = "False"]
    /\ UNCHANGED <<alive, actor_address, server, listen_port, redis_conn, wpc,
                   calls>>
    /\ UNCHANGED supervisorVars

\* destroy(): self.run = False
CancellingActorDestroy(w) ==
    /\ NextCall(w) = "destroy"
    /\ taken' = [taken EXCEPT ![w] = @ + 1]
    /\ run' = [run EXCEPT ![w] = "False"]
    /\ wpc' = [wpc EXCEPT ![w] = IF redis_conn[w] = "none" THEN "failed" ELSE @]
    /\ UNCHANGED <<alive, actor_address, server, listen_port, redis_conn,
                   calls>>
    /\ UNCHANGED supervisorVars

ActorDestroy(w) ==
    /\ NextCall(w) = "destroy"
    /\ taken' = [taken EXCEPT ![w] = @ + 1]
    /\ run' = [run EXCEPT ![w] = "False"]
    /\ UNCHANGED <<alive, actor_address, server, listen_port, redis_conn, wpc,
                   calls>>
    /\ UNCHANGED supervisorVars

\* the process of actor w dies (a crash, or __init__ raised): its listener and
\* its connection go with it, a running start() ends with an error, and no
\* later call to it runs (max_restarts is left at 0)
ActorDies(w) ==
    /\ alive[w] \in {"pending", "alive"}
    /\ alive' = [alive EXCEPT ![w] = "dead"]
    /\ server' = [server EXCEPT ![w] = "none"]
    /\ listen_port' = [listen_port EXCEPT ![w] = 0]
    /\ redis_conn' = [redis_conn EXCEPT ![w] = "none"]
    /\ wpc' = [wpc EXCEPT ![w] =
                  IF @ \in {"connecting", "starting", "waiting"}
                  THEN "failed" ELSE @]
    /\ UNCHANGED <<run, actor_address, calls, taken>>
    /\ UNCHANGED supervisorVars

Next ==
    \/ ReserveSocket
    \/ ReserveSetOptionOk
    \/ ReserveSetOptionUnsupported
    \/ ReserveSetOptionError
    \/ ReserveBindOk
    \/ ReserveBindError
    \/ ReserveYield
    \/ ReserveClose
    \/ ConstructWorker
    \/ ConstructFails
    \/ DispatchStart
    \/ Interrupt
    \/ GetRaises
    \/ IssueStop
    \/ IssueDestroy
    \/ \E w \in Workers : ActorInit(w)
    \/ \E w \in Workers : ActorBeginStart(w)
    \/ \E w \in Workers : ActorConnectFails(w)
    \/ \E w \in Workers : ActorBound(w)
    \/ \E w \in Workers : ActorBindFails(w)
    \/ \E w \in Workers : ActorServing(w)
    \/ \E w \in Workers : ActorStop(w)
    \/ \E w \in Workers : ActorDestroy(w)
    \/ \E w \in Workers : ActorDies(w)

Spec == Init /\ [][Next]_vars

\* Any holder of the handle of actor w calls stop.remote() once more: the
\* method is part of the actor's interface, and main is not its only caller.
ClientStop(w) ==
    /\ alive[w] # "none"
    /\ Len(calls[w]) < MaxCalls
    /\ calls' = Dispatch(w, "stop")
    /\ UNCHANGED <<pc, sock, supported, port, bind_address, grpc_ingestors,
                   idx, exc, result, interrupted, taken>>
    /\ UNCHANGED actorVars

ClientNext ==
    \/ Next
    \/ \E w \in Workers : ClientStop(w)

\* the program with stop() callable at any time, any number of times
ClientSpec == Init /\ [][ClientNext]_vars

TypeOK ==
    /\ pc \in {"socket", "setsockopt", "bind", "yield", "construct",
               "dispatch", "get", "stop", "destroy", "close", "done"}
    /\ sock \in {"none", "open", "bound", "closed"}
    /\ supported \in BOOLEAN
    /\ port \in {0, ProbePort}
    /\ idx \in 0..WorkerCount
    /\ exc \in {"none", "OSError", "ConstructError", "RayTaskError"}
    /\ result \in {"running", "returned", "raised"}
    /\ interrupted \in BOOLEAN
    /\ \A w \in Workers :
        /\ taken[w] \in 0..Len(calls[w])
        /\ alive[w] \in {"none", "pending", "alive", "dead"}
        /\ run[w] \in {"unset", "None", "False"}
        /\ server[w] \in {"none", "created", "bound", "serving"}
        /\ redis_conn[w] \in {"none", "open"}
        /\ wpc[w] \in {"idle", "connecting", "starting", "waiting", "failed"}

\* ---------------------------------------------------------------------------
\* Vocabulary of the properties
\* ---------------------------------------------------------------------------

\* the actors of the pool
Pool == {grpc_ingestors[i] : i \in 1..Len(grpc_ingestors)}

\* the list comprehension of main has finished and the pool is assigned
PoolBuilt == \/ pc \in {"dispatch", "get", "stop", "destroy"}
             \/ /\ pc \in {"close", "done"}
                /\ grpc_ingestors # <<>>
                /\ exc # "ConstructError"

\* how often `method` has been dispatched to actor w
Issued(w, method) ==
    Cardinality({i \in 1..Len(calls[w]) : calls[w][i] = method})

\* `method` of actor w has run
Executed(w, method) == \E i \in 1..taken[w] : calls[w][i] = method

\* this step runs `method` on actor w
Executes(w, method) ==
    /\ taken'[w] = taken[w] + 1
    /\ calls[w][taken'[w]] = method

\* the worker states of the data model, read off the actor's fields
Starting(w) == wpc[w] \in {"connecting", "starting"}

Serving(w) == server[w] = "serving"

\* the actor holds a listener on the port, or a backing-store connection
HoldsListener(w) == server[w] \in {"bound", "serving"}

HoldsConnection(w) == redis_conn[w] = "open"

\* ---------------------------------------------------------------------------
\* Properties
\* ---------------------------------------------------------------------------

\* C1: whenever run() has completed after the pool was built (an interrupt
\* arrived, or a start() raised), destroy() has been issued exactly once to
\* each actor of the pool; and at no time has it been issued twice to one.
C1_DestroyExactlyOnce ==
    /\ \A w \in Workers : Issued(w, "destroy") <= 1
    /\ (pc = "done" /\ PoolBuilt) =>
          \A w \in Workers :
              Issued(w, "destroy") = IF alive[w] # "none" THEN 1 ELSE 0

\* run() has ended with the error of a failed start() and a pool of two
C1_Witness ==
    /\ pc = "done"
    /\ exc = "RayTaskError"
    /\ Len(grpc_ingestors) = 2
    /\ \A w \in Pool : Issued(w, "destroy") = 1

\* C2: once the pool is built it has exactly 1 actor if the reservation
\* reported shared binding unsupported and exactly 2 if it reported it
\* supported, as many actors were constructed, and the pool never changes
\* afterwards.
C2_PoolSizeByFlag ==
    /\ [](PoolBuilt =>
            /\ Len(grpc_ingestors) = (IF supported THEN 2 ELSE 1)
            /\ Cardinality({w \in Workers : alive[w] # "none"})
                  = Len(grpc_ingestors))
    /\ [][PoolBuilt => grpc_ingestors' = grpc_ingestors]_vars

\* the fallback: the supervisor waits on a pool of one
C2_Witness ==
    /\ pc = "get"
    /\ ~supported
    /\ Len(grpc_ingestors) = 1

\* C3: every actor that exists holds the bind address localhost:<port> with
\* the port the reservation produced, so all hold the same one, and a bound
\* or serving listener listens on that port.
C3_SameBindAddress ==
    \A w \in Workers :
        /\ alive[w] = "alive" =>
              /\ actor_address[w].host = "localhost"
              /\ actor_address[w].port = port
              /\ port = ProbePort
              /\ \A v \in Workers :
                    alive[v] = "alive" => actor_address[v] = actor_address[w]
        /\ HoldsListener(w) => listen_port[w] = port

\* two actors serve on the reserved port
C3_Witness ==
    /\ Len(grpc_ingestors) = 2
    /\ \A w \in Pool : Serving(w) /\ listen_port[w] = ProbePort

\* C4 (as claimed): the probe socket is never open while an actor is
\* constructed, binding its listener, or serving.
C4_ProbeClosedBeforeWorkers ==
    (\E w \in Workers : alive[w] # "none") => sock \notin {"open", "bound"}

\* C5 (as claimed): once the probe socket was opened, no exit of the
\* reservation, and so of run(), leaves it open.
C5_ProbeReleasedOnEveryExit ==
    pc = "done" => sock \notin {"open", "bound"}

\* C6: when run() has ended after an interrupt, it returned without raising
\* and every actor of the pool was sent stop() and then destroy(), stop()
\* first; an actor runs them in that order.
C6_InterruptStopsThenDestroysAll ==
    /\ (pc = "done" /\ interrupted) =>
          /\ result = "returned"
          /\ \A w \in Pool :
                \E i, j \in 1..Len(calls[w]) :
                    /\ i < j
                    /\ calls[w][i] = "stop"
                    /\ calls[w][j] = "destroy"
    /\ \A w \in Workers :
          /\ (interrupted /\ Issued(w, "destroy") > 0) => Issued(w, "stop") > 0
          /\ (interrupted /\ Executed(w, "destroy")) => Executed(w, "stop")

\* the interrupt arrived in the wait: both actors had their start() and were
\* serving, and run() has returned
C6_Witness ==
    /\ pc = "done"
    /\ interrupted
    /\ Len(grpc_ingestors) = 2
    /\ \A w \in Pool : calls[w] = <<"start", "stop", "destroy">> /\ Serving(w)

\* C7 (as claimed): no actor is serving before every actor of the pool has
\* constructed its listener (self.server, made in __init__).
C7_AllConstructedBeforeServing ==
    (\E w \in Workers : Serving(w)) =>
        \A v \in Pool : server[v] # "none"

\* C8 (as claimed): a stop() that runs on a serving actor takes it out of
\* Serving.
C8_StopLeavesServing ==
    [][\A w \in Workers :
          (Executes(w, "stop") /\ Serving(w)) => ~Serving(w)']_vars

\* C9 (as claimed): a destroy() that runs leaves its actor without a bound
\* or serving listener and without a backing-store connection.
C9_DestroyReleases ==
    [][\A w \in Workers :
          Executes(w, "destroy") =>
              (~HoldsListener(w)' /\ ~HoldsConnection(w)')]_vars

\* C10 (as claimed): once destroy() has run on an actor, no step moves the
\* actor to Starting or Serving.
C10_DestroyedIsTerminal ==
    [][\A w \in Workers :
          Executed(w, "destroy") =>
              /\ (Starting(w)' => Starting(w))
              /\ (Serving(w)' => Serving(w))]_vars

\* the fields of actor w are the same after this step
ActorUnchanged(w) ==
    /\ alive'[w] = alive[w]
    /\ run'[w] = run[w]
    /\ actor_address'[w] = actor_address[w]
    /\ server'[w] = server[w]
    /\ listen_port'[w] = listen_port[w]
    /\ redis_conn'[w] = redis_conn[w]
    /\ wpc'[w] = wpc[w]

\* C11: a stop() that runs on an actor on which stop() or destroy() has run
\* before changes no field of the actor and ends no call with an error; and
\* any stop() leaves self.run = False and the rest of the actor as it was, so
\* a second stop() leaves the state the first one left.
C11_StopIdempotent ==
    [][\A w \in Workers :
          Executes(w, "stop") =>
              /\ run'[w] = "False"
              /\ alive'[w] = alive[w]
              /\ server'[w] = server[w]
              /\ listen_port'[w] = listen_port[w]
              /\ redis_conn'[w] = redis_conn[w]
              /\ wpc'[w] = wpc[w]
              /\ (Executed(w, "stop") \/ Executed(w, "destroy"))
                    => ActorUnchanged(w)]_vars

\* stop() has run on an actor after an earlier stop() and a destroy()
C11_Witness ==
    \E w \in Workers :
        /\ calls[w] = <<"start", "stop", "destroy", "stop">>
        /\ taken[w] = 4

C13_BindFailureIsFatal ==
    /\ [][(pc = "bind" /\ pc' # pc /\ sock' # "bound") =>
              (pc' = "done" /\ result' = "raised" /\ exc' = "OSError")]_vars
    /\ []((pc = "done" /\ sock = "open") =>
              /\ result = "raised"
              /\ port = 0
              /\ grpc_ingestors = <<>>
              /\ \A w \in Workers : alive[w] = "none" /\ calls[w] = <<>>)
    /\ [][pc = "done" => (pc' = "done" /\ sock' = sock /\ port' = port)]_vars

\* the option was rejected and caught, then the bind failed
C13_Witness ==
    /\ pc = "done"
    /\ sock = "open"
    /\ ~supported
    /\ result = "raised"

\* C14: when the platform rejects the option, the reservation goes on to the
\* bind with no error in flight; it then yields the bound port with
\* supported = False, and run() reaches its wait with one actor constructed
\* and sent start().
C14_OptionRejectionIsRecovered ==
    /\ [][(pc = "setsockopt" /\ ~supported') =>
              (pc' = "bind" /\ result' = "running" /\ exc' = "none"
               /\ sock' = sock)]_vars
    /\ []((~supported /\ pc \in {"construct", "dispatch", "get"}) =>
              (port = ProbePort /\ sock = "bound" /\ result = "running"))
    /\ []((~supported /\ pc = "get") =>
              (grpc_ingestors = <<1>> /\ calls[1] = <<"start">>))

\* in the fallback the start() of the single actor is running while run() waits
C14_Witness ==
    /\ ~supported
    /\ pc = "get"
    /\ wpc[1] = "connecting"
    /\ Cardinality({w \in Workers : alive[w] # "none"}) = 1

\* C15: while run() waits and the start() of some actor has failed, ray.get
\* can raise that error; the step in which one actor's start() fails changes
\* no field of any other actor; and when run() has ended with that error,
\* destroy() has been sent to every actor of the pool, the failed one included.
C15_StartFailureIsIsolated ==
    /\ []((pc = "get" /\ \E w \in Pool : StartFailed(w)) => ENABLED GetRaises)
    /\ [][\A w \in Workers :
            (wpc'[w] = "failed" /\ wpc[w] # "failed") =>
                \A v \in Workers \ {w} : ActorUnchanged(v)]_vars
    /\ []((pc = "done" /\ exc = "RayTaskError") =>
            /\ result = "raised"
            /\ \E w \in Pool : StartFailed(w)
            /\ \A w \in Pool : StartFailed(w) => Issued(w, "destroy") = 1)

\* run() has ended with the error of actor 1, whose start() failed and which
\* was sent destroy(), while actor 2 is serving
C15_Witness ==
    /\ pc = "done"
    /\ exc = "RayTaskError"
    /\ alive[1] = "alive"
    /\ wpc[1] = "failed"
    /\ Issued(1, "destroy") = 1
    /\ Len(grpc_ingestors) = 2
    /\ Serving(2)

\* C16: when run() has ended after the pool was built, every actor of the pool
\* has been sent destroy(), and stop() too if the interrupt came, whatever
\* became of the calls sent to the other actors (a call to a dead actor
\* fails).
C16_ShutdownCallsIndependent ==
    (pc = "done" /\ PoolBuilt) =>
        \A w \in Pool :
            /\ Issued(w, "destroy") = 1
            /\ interrupted => Issued(w, "stop") = 1

\* after the interrupt actor 1 was dead: only its start() ever ran, its
\* stop() and destroy() failed; actor 2 was still sent, and ran, both
C16_Witness ==
    /\ pc = "done"
    /\ interrupted
    /\ alive[1] = "dead"
    /\ calls[1] = <<"start", "stop", "destroy">>
    /\ taken[1] = 1
    /\ calls[2] = <<"start", "stop", "destroy">>
    /\ taken[2] = 3

\* the start() sent to actor w has not ended (it never ends but by an error)
StartRunning(w) == Issued(w, "start") > 0 /\ ~StartFailed(w)

\* C17 (as claimed): unless an interrupt arrived, the supervisor is not in its
\* cleanup phase, nor past it, while the start() of an actor is still running.
C17_NoCleanupWhileStartRuns ==
    (~interrupted /\ PoolBuilt /\ pc \in {"destroy", "close", "done"}) =>
        \A w \in Pool : ~StartRunning(w)

\* C18: start() is sent only once every actor of the pool is constructed, the
\* supervisor waits only once start() was sent to every actor, and it never
\* goes back from the wait to constructing or to sending start().
C18_DispatchAllBeforeWait ==
    /\ []((\E w \in Workers : Issued(w, "start") > 0) =>
            Len(grpc_ingestors) = (IF supported THEN 2 ELSE 1))
    /\ [](pc = "get" =>
            /\ Len(grpc_ingestors) = (IF supported THEN 2 ELSE 1)
            /\ \A w \in Pool : Issued(w, "start") = 1)
    /\ [][(\E w \in Workers : Issued(w, "start")' > Issued(w, "start")) =>
              pc = "dispatch"]_vars
    /\ [][pc = "get" => pc' \notin {"construct", "dispatch"}]_vars

\* the supervisor waits with start() sent to both actors and begun by neither
C18_Witness ==
    /\ pc = "get"
    /\ Len(grpc_ingestors) = 2
    /\ \A w \in Pool : calls[w] = <<"start">> /\ taken[w] = 0

\* the orders in which main sends the lifecycle calls to one actor
LifecycleOrders ==
    {<<>>, <<"start">>, <<"start", "stop">>, <<"start", "destroy">>,
     <<"start", "stop", "destroy">>, <<"stop">>, <<"stop", "destroy">>}

\* C19 (as claimed): the calls sent to an actor are start, then optionally
\* stop, then destroy, each at most once, and stop() is sent only after an
\* interrupt that arrived in the wait phase, with start() sent to every actor.
C19_LifecycleOrderWaitOnly ==
    \A w \in Workers :
        /\ calls[w] \in LifecycleOrders
        /\ Issued(w, "stop") > 0 =>
              (interrupted /\ \A v \in Pool : Issued(v, "start") = 1)

\* C19 (amended): the calls sent to an actor are start (not sent at all if the
\* interrupt arrives while start() is being dispatched), then optionally stop,
\* then destroy, each at most once and never start after stop or destroy; and
\* stop() is sent only after an interrupt inside the try block.
C19_LifecycleOrder ==
    \A w \in Workers :
        /\ calls[w] \in LifecycleOrders
        /\ Issued(w, "stop") > 0 => interrupted

\* the interrupt arrived between the two start.remote(): actor 2 was sent
\* stop() and destroy() but never start()
C19_Witness ==
    /\ pc = "done"
    /\ interrupted
    /\ calls[1] = <<"start", "stop", "destroy">>
    /\ calls[2] = <<"stop", "destroy">>

\* C20: sock.close() runs only on the bound probe socket, a closed socket
\* stays closed, no exit of run() leaves the socket bound, and when it is
\* closed with the pool built, destroy() has been sent to every actor.
C20_ProbeClosedOnceAfterDestroy ==
    /\ [](pc = "close" => sock = "bound")
    /\ [](pc = "done" => sock # "bound")
    /\ [][sock = "closed" => sock' = "closed"]_vars
    /\ [][(sock # "closed" /\ sock' = "closed" /\ PoolBuilt) =>
              \A w \in Pool : Issued(w, "destroy") = 1]_vars

\* run() has returned after an interrupt with two actors started: the socket
\* is closed and both were sent destroy()
C20_Witness ==
    /\ pc = "done"
    /\ sock = "closed"
    /\ interrupted
    /\ Len(grpc_ingestors) = 2
    /\ \A w \in Pool : Issued(w, "start") = 1 /\ Issued(w, "destroy") = 1

====
